---- MODULE Spec2Model ----
(***************************************************************************)
(* Model of the three batch tools of the repository:                       *)
(*   makesakeys.py            discovery flow: create one key per account   *)
(*   removesakeys.py          delete-only flow: delete all user keys       *)
(*   serviceaccountfactory.py factory flow: reconcile accounts, delete     *)
(*                            keys, create keys                            *)
(* The identity provider is the environment: it holds the directory of     *)
(* accounts and the keys of each account, and it may answer a call with an *)
(* error.  Durations are in hundredths of a second.                        *)
(***************************************************************************)
EXTENDS Integers, Sequences, FiniteSets, TLC

\* ------------------------------------------------------------------ bounds
MaxAccounts == 9      \* numbered accounts in the directory (discovery)
MaxRemove == 5        \* numbered accounts in the directory (delete-only)
KeyLimit == 2         \* the provider's cap on user-managed keys per account
MaxTarget == 5        \* largest target count typed into the factory
MaxFaults == 2        \* unexpected errors injected in one run
MaxTransient == 3     \* transient provider errors injected in one run
MaxPassCount == 4     \* the pass counter saturates here
LiveAccounts == 4     \* numbered accounts in the directory (fair runs)
LiveFaults == 1       \* errors of each sort injected in one fair run

\* ---------------------------------------------------------------- strings
\* A string is the sequence of the code points of its characters.
Ord(ch) ==
    CASE ch = " " -> 32
      [] ch = "*" -> 42
      [] ch = "-" -> 45
      [] ch = "." -> 46
      [] ch = "0" -> 48
      [] ch = "@" -> 64
      [] ch = "A" -> 65
      [] ch = "E" -> 69
      [] ch = "S" -> 83
      [] ch = "Y" -> 89
      [] ch = "a" -> 97
      [] ch = "e" -> 101
      [] ch = "n" -> 110
      [] ch = "p" -> 112
      [] ch = "s" -> 115
      [] ch = "x" -> 120
      [] ch = "y" -> 121

Str(chars) == [k \in 1..Len(chars) |-> Ord(chars[k])]

\* ------------------------------------------------------- program constants
RETRIES == 3             \* retries=3 of both list-and-delete functions
WINDOW == 4              \* (i + 1) % 4
KEY_COOLDOWN == 1000     \* time.sleep(10) after every 4th key creation
ACCOUNT_COOLDOWN == 2000 \* time.sleep(20) after every 4th account creation
PASS_DELAY == 1000       \* time.sleep(10) before a retry pass
SETTLE_DELAY == 500      \* time.sleep(5) after the creates of one reconcile
ERROR_DELAY == 1000      \* time.sleep(10) after an error in the reconcile
ACCOUNT_DELAY == 20      \* time.sleep(0.2) after each account (delete-only)
DELETE_DELAY_RM == 10    \* time.sleep(0.1) after each delete (delete-only)
DELETE_DELAY_FA == 5     \* time.sleep(0.05) after each delete (factory)
WIDTH == 3               \* the digits of {number:03d} and of \d{3}

\* ------------------------------------------------------------ pure helpers
Min(a, b) == IF a < b THEN a ELSE b

Range(s) == {s[k] : k \in 1..Len(s)}

\* str.lower() on one character and on a string
LowerChar(c) == IF c >= 65 /\ c <= 90 THEN c + 32 ELSE c

Lower(s) == [k \in 1..Len(s) |-> LowerChar(s[k])]

\* str.strip(): drop the leading and trailing blanks
Strip(s) ==
    LET inked == {k \in 1..Len(s) : s[k] # Ord(" ")}
    IN  IF inked = {} THEN <<>>
        ELSE SubSeq(s, CHOOSE k \in inked : \A o \in inked : k <= o,
                       CHOOSE k \in inked : \A o \in inked : k >= o)

\* faulty variant: the comparison stops at the end of the shorter string
StartsWithClipped(s, p) ==
    \A k \in 1..Len(p) : k <= Len(s) => s[k] = p[k]

\* str.startswith(prefix)
StartsWith(s, p) == Len(p) <= Len(s) /\ SubSeq(s, 1, Len(p)) = p

\* email.split('@')[0]: the part before the first '@'
AccountId(email) ==
    LET ats == {k \in 1..Len(email) : email[k] = Ord("@")}
    IN  IF ats = {} THEN email
        ELSE SubSeq(email, 1, (CHOOSE k \in ats : \A o \in ats : k <= o) - 1)

\* str comparison of Python: lexicographic by code point; a < b when a is a
\* proper prefix of b or the first differing character is smaller in a
StrLess(a, b) ==
    \E k \in 1..Len(b) :
        /\ k <= Len(a) + 1
        /\ \A j \in 1..(k - 1) : a[j] = b[j]
        /\ k <= Len(a) => a[k] < b[k]

\* f"{number:03d}": decimal digits, zero-padded to at least three
RECURSIVE Digits(_)
Digits(n) == IF n < 10 THEN <<Ord("0") + n>> ELSE Digits(n \div 10) \o <<Ord("0") + (n % 10)>>

Fmt03(n) ==
    LET d == Digits(n)
    IN  IF Len(d) = 1 THEN Str(<<"0", "0">>) \o d
        ELSE IF Len(d) = 2 THEN Str(<<"0">>) \o d
        ELSE d

\* f"{prefix}-{number:03d}"
SaName(prefix, number) == prefix \o Str(<<"-">>) \o Fmt03(number)

\* the project id read from the controller file, and the address of an account
ProjectId == Str(<<"p">>)

EmailOf(name) == name \o Str(<<"@">>) \o ProjectId

\* sorted(target_sas, key=lambda x: x['name']): a stable sort, the k-th
\* element is the one with k - 1 elements before it
SortedByName(s) ==
    LET Before(a, b) ==
            \/ StrLess(s[a].name, s[b].name)
            \/ s[a].name = s[b].name /\ a < b
        Rank(b) == Cardinality({a \in 1..Len(s) : Before(a, b)})
    IN  [k \in 1..Len(s) |-> s[CHOOSE b \in 1..Len(s) : Rank(b) = k - 1]]

\* ------------------------------------------------------------------ state
VARIABLES
    flow,            \* which tool runs: "make", "remove" or "factory"
    denied,          \* the caller lacks the permission to list accounts
    typed,           \* the answer at the confirmation prompt, until tested
    total_target_count, \* factory: total_target_count
    pc,              \* position of main
    prefix,          \* the prefix typed by the operator, normalised
    directory,       \* provider: the account addresses, in listing order
    keys,            \* provider: address -> set of keys <<type, id>>
    key_serial,      \* provider: address -> number of keys ever created
    broken,          \* provider: addresses whose key calls always fail
    faults,          \* unexpected errors the environment may still inject
    transients,      \* transient errors the environment may still inject
    target,          \* target_sas / target_accounts / target_sa_names
    existing_sa_emails, \* factory: the addresses of the last listing
    queue,           \* the queue of the running pass
    i,               \* items of the running pass already processed
    failed_tasks,    \* failed_tasks of the running pass
    pass_no,         \* number of the running pass (saturating)
    results,         \* outcome of each item processed in the running pass
    log,             \* every outcome of the running loop: [item, kind, ok, pass]
    pauses,          \* <<k, duration>>: sleep made after the k-th item
    last_sleep,      \* duration of the sleep made by the last step, or 0
    exit_status,     \* status given to sys.exit, -1 while running
    attempt,         \* list-and-delete: attempt of the running invocation
    key_names,       \* list-and-delete: key_names of the running attempt
    key_pos,         \* list-and-delete: keys of key_names already deleted
    keys_deleted_count, \* list-and-delete: keys_deleted_count
    backoffs,        \* list-and-delete: the backoff waits of the invocation
    calls,           \* list-and-delete: provider calls of the invocation
    held,            \* list-and-delete: user keys held when it was called
    last_answer,     \* list-and-delete: how the last provider call ended
    ret,             \* list-and-delete: the value returned
    total_keys_deleted  \* removesakeys.py: total_keys_deleted

run_vars == <<flow, denied, typed, total_target_count, pc, prefix, target, existing_sa_emails, exit_status>>

provider_vars == <<directory, keys, key_serial, broken, faults, transients>>

pass_vars == <<queue, i, failed_tasks, pass_no, results, pauses>>

call_vars == <<attempt, key_names, key_pos, keys_deleted_count, backoffs, calls,
               held, last_answer, ret>>

vars == <<run_vars, provider_vars, pass_vars, call_vars, log, last_sleep,
          total_keys_deleted>>

\* ------------------------------------------------------------- environment
SaPrefix == Str(<<"s", "a">>)

\* The directory holds n numbered accounts sa-00n .. sa-001, listed in
\* descending order, between an account "s" and an account "x".
Listing(n) ==
    <<EmailOf(Str(<<"s">>))>>
    \o [k \in 1..n |-> EmailOf(SaName(SaPrefix, n + 1 - k))]
    \o <<EmailOf(Str(<<"x">>))>>

UserKey(id) == <<"USER_MANAGED", id>>

SystemKey(id) == <<"SYSTEM_MANAGED", id>>

\* the number of user-managed keys the k-th numbered account starts with
InitKeyCount(k) == k % (KeyLimit + 1)

\* the first target count whose last name has more digits than WIDTH
WideCount == 10 ^ WIDTH

\* the number of a numbered account of the listing, 0 for the two others
ListingNumber(e) ==
    LET h == Len(SaPrefix) + 1
    IN  IF Len(e) < h + WIDTH THEN 0
        ELSE 100 * (e[h + 1] - Ord("0")) + 10 * (e[h + 2] - Ord("0"))
             + (e[h + 3] - Ord("0"))

InitKeys(n) ==
    [e \in Range(Listing(n)) |->
        {SystemKey(0)} \cup
        IF ListingNumber(e) > 0
        THEN {UserKey(j) : j \in 1..InitKeyCount(ListingNumber(e))}
        ELSE {UserKey(1)}]

\* no account is broken, or sa-001 is
BrokenChoices == {{}, {EmailOf(SaName(SaPrefix, 1))}}

UserKeysOf(e) == {k \in keys[e] : k[1] = "USER_MANAGED"}

\* what the operator may type at the prefix prompt
PrefixInputs ==
    {Str(<<"s", "a">>), Str(<<" ", "S", "A", " ">>), Str(<<"x">>), Str(<<" ">>),
     Str(<<"s", "*">>)}

\* what the operator may type at the confirmation prompt
ConfirmInputs ==
    {Str(<<"y", "e", "s">>), Str(<<"Y", "E", "S">>), Str(<<"y">>), Str(<<"Y">>),
     Str(<<"n">>)}

Flows == {"make", "remove", "factory"}

\* how many numbered accounts the directory may hold when a run starts
DirectorySizes(f) ==
    CASE f = "make" -> 0..MaxAccounts
      [] f = "remove" -> 0..MaxRemove
      [] f = "factory" -> {0, 2, WideCount - 1}

\* what the operator may type at the target count prompt
TargetCounts == {0, 1, MaxTarget}

\* with the directory that holds every name of WIDTH digits, the operator
\* asks for one account more
TargetCountsFor(listing) ==
    IF Len(listing) > WideCount THEN {WideCount} ELSE TargetCounts

\* what the operator may type at the prefix prompt of the factory
FaPrefixInputs == {Str(<<"s", "a">>), Str(<<" ", "S", "A", " ">>)}

NoCalls == [list |-> 0, delete |-> 0]

\* the state when a tool starts, with n numbered accounts in the directory
\* and budgets f and t of injected errors
Start(n, f, t) ==
    /\ flow \in Flows
    /\ denied \in BOOLEAN
    /\ typed = <<>>
    /\ total_target_count = 0
    /\ pc = "input"
    /\ prefix = <<>>
    /\ n \in DirectorySizes(flow)
    /\ directory = Listing(n)
    /\ keys = InitKeys(n)
    /\ key_serial = [e \in DOMAIN keys |-> Cardinality(keys[e]) - 1]
    /\ broken \in BrokenChoices
    /\ faults = f
    /\ transients = t
    /\ target = IF flow = "factory" THEN {} ELSE <<>>
    /\ existing_sa_emails = {}
    /\ queue = <<>>
    /\ i = 0
    /\ failed_tasks = <<>>
    /\ pass_no = 0
    /\ results = <<>>
    /\ log = {}
    /\ pauses = {}
    /\ last_sleep = 0
    /\ exit_status = -1
    /\ attempt = 0
    /\ key_names = <<>>
    /\ key_pos = 0
    /\ keys_deleted_count = 0
    /\ backoffs = <<>>
    /\ calls = NoCalls
    /\ held = {}
    /\ last_answer = "NONE"
    /\ ret = IF flow = "factory" THEN FALSE ELSE -1
    /\ total_keys_deleted = 0

Init == \E n \in 0..MaxAccounts \cup {WideCount - 1} : Start(n, MaxFaults, MaxTransient)

\* the fair runs start with a smaller directory and smaller budgets
LiveInit == \E n \in 0..LiveAccounts : Start(n, LiveFaults, LiveFaults)

\* ------------------------------------------------------------ batch driver
\* faulty variant: the pause is also made after the last item
CooldownAlsoLast(k, total) == k % WINDOW = 0

\* if (i + 1) % 4 == 0 and (i + 1) < total: the pause after the k-th item
Cooldown(k, total) == k % WINDOW = 0 /\ k < total

\* faulty variant: the test is inverted, the successes are collected
CollectSuccesses(failed, item, ok) == IF ok THEN Append(failed, item) ELSE failed

\* faulty variant: a failure is not collected
CollectNothing(failed, item, ok) == failed

\* if not operation(item): failed_tasks.append(item)
Collect(failed, item, ok) == IF ok THEN failed ELSE Append(failed, item)

\* faulty variant: the whole queue is processed again
RetryWholeQueue(q, failed) == q

\* faulty variant: the failures are dropped
RetryNothing(q, failed) == <<>>

\* faulty variant: the discovery flow filters the directory again
RetryRelisted(q, failed) ==
    IF flow = "make"
    THEN LET hits == SelectSeq(directory, LAMBDA e : SubSeq(e, 1, Len(prefix)) = prefix)
         IN  [k \in 1..Len(hits) |-> [name |-> AccountId(hits[k]), email |-> hits[k]]]
    ELSE failed

\* key_creation_queue = failed_tasks
RetryQueue(q, failed) == failed

NextPass(n) == Min(n + 1, MaxPassCount)

Outcome(item, kind, ok) == [item |-> item, kind |-> kind, ok |-> ok, pass |-> pass_no]

\* sys.exit(status)
Exit(status) ==
    /\ pc' = "exit"
    /\ exit_status' = status

\* entering a pass loop with queue q: while q: failed_tasks = []
StartLoop(q, loop_pc, after_pc) ==
    /\ queue' = q
    /\ i' = 0
    /\ failed_tasks' = <<>>
    /\ results' = <<>>
    /\ pauses' = {}
    /\ log' = {}
    /\ IF q = <<>> THEN pc' = after_pc /\ pass_no' = 0
                   ELSE pc' = loop_pc /\ pass_no' = 1

\* after the for loop of a pass: break, or sleep and go round again
EndPass(loop_pc, after_pc) ==
    IF failed_tasks = <<>>
    THEN /\ pc' = after_pc
         /\ last_sleep' = 0
         /\ UNCHANGED <<queue, i, failed_tasks, pass_no, results, pauses>>
    ELSE /\ queue' = RetryQueue(queue, failed_tasks)
         /\ failed_tasks' = <<>>
         /\ i' = 0
         /\ results' = <<>>
         /\ pauses' = {}
         /\ pass_no' = NextPass(pass_no)
         /\ last_sleep' = PASS_DELAY
         /\ pc' = loop_pc

\* list_service_accounts raises: PermissionDenied on every call of a caller
\* without the permission, or an injected error
ListingFails == denied \/ faults > 0

\* the injected errors left after a listing that failed
ListingBudget == IF denied THEN faults ELSE faults - 1

\* ------------------------------------------------- makesakeys.py: discovery
\* prefix = input(...).lower().strip(); empty prefix: sys.exit(message)
MkInput ==
    /\ flow = "make" /\ pc = "input"
    /\ \E raw \in PrefixInputs :
          /\ prefix' = Strip(Lower(raw))
          /\ IF prefix' = <<>> THEN Exit(1)
             ELSE pc' = "mk_list" /\ UNCHANGED exit_status
    /\ UNCHANGED <<flow, denied, typed, total_target_count, target, existing_sa_emails, provider_vars, pass_vars, call_vars, log,
                   last_sleep, total_keys_deleted>>

\* the accounts of the listing whose account id starts with the prefix
MkTargets(listing, p) ==
    LET Pick(e) == StartsWith(AccountId(e), p)
        hits == SelectSeq(listing, Pick)
    IN  [k \in 1..Len(hits) |-> [name |-> AccountId(hits[k]), email |-> hits[k]]]

\* list_service_accounts and the filter; any error, or no match: sys.exit
MkList ==
    /\ flow = "make" /\ pc = "mk_list"
    /\ \/ /\ ~denied
          /\ \E target_sas \in {MkTargets(directory, prefix)} :
                /\ target' = target_sas
                /\ IF target_sas = <<>>
                   THEN /\ Exit(1)
                        /\ UNCHANGED <<pass_vars, log>>
                   ELSE /\ \E key_creation_queue \in {SortedByName(target_sas)} :
                              StartLoop(key_creation_queue, "mk_pass", "done")
                        /\ UNCHANGED exit_status
          /\ UNCHANGED faults
       \/ /\ ListingFails
          /\ faults' = ListingBudget
          /\ Exit(1)
          /\ UNCHANGED <<target, pass_vars, log>>
    /\ UNCHANGED <<flow, denied, typed, total_target_count, prefix, existing_sa_emails, directory, keys, key_serial, broken, transients,
                   call_vars, last_sleep, total_keys_deleted>>

\* The ways one create_and_save_key call can end.  SAVED and LIMIT_REACHED
\* are the provider's normal answers; the others are injected errors:
\* INVALID_ARGUMENT another InvalidArgument, FAILED an exception of the
\* provider call, UNSAVED an exception after the key was created (decode or
\* file write).
CreateKinds(email) ==
    IF email \in broken THEN {"FAILED"}
    ELSE (IF Cardinality(UserKeysOf(email)) < KeyLimit
          THEN {"SAVED"} ELSE {"LIMIT_REACHED"})
         \cup (IF faults > 0 THEN {"INVALID_ARGUMENT", "FAILED", "UNSAVED"} ELSE {})

\* does the provider hold one key more after a call that ended this way
KeyCreated(email, kind) ==
    /\ kind \in {"SAVED", "UNSAVED"}
    /\ Cardinality(UserKeysOf(email)) < KeyLimit

\* faulty variant: the new key replaces the user-managed keys of the account
ProviderCreateKeyReplacing(email, kind) ==
    IF KeyCreated(email, kind)
    THEN /\ keys' = [keys EXCEPT ![email] = {k \in @ : k[1] # "USER_MANAGED"}
                                               \cup {UserKey(key_serial[email] + 1)}]
         /\ key_serial' = [key_serial EXCEPT ![email] = @ + 1]
    ELSE UNCHANGED <<keys, key_serial>>

\* the provider adds a key with a fresh id
ProviderCreateKey(email, kind) ==
    IF KeyCreated(email, kind)
    THEN /\ keys' = [keys EXCEPT ![email] = @ \cup {UserKey(key_serial[email] + 1)}]
         /\ key_serial' = [key_serial EXCEPT ![email] = @ + 1]
    ELSE UNCHANGED <<keys, key_serial>>

FaultUsed(email, kind) ==
    IF email \notin broken /\ kind \in {"INVALID_ARGUMENT", "FAILED", "UNSAVED"}
    THEN 1 ELSE 0

\* the value create_and_save_key of makesakeys.py returns
MkReturns(kind) == kind \in {"SAVED", "LIMIT_REACHED", "INVALID_ARGUMENT"}

\* one round of the for loop: create_and_save_key, failed_tasks, cooldown
MkCreateKey ==
    /\ flow = "make" /\ pc = "mk_pass" /\ i < Len(queue)
    /\ LET item == queue[i + 1]
       IN  \E kind \in CreateKinds(item.email) :
              LET ok == MkReturns(kind)
              IN  /\ ProviderCreateKey(item.email, kind)
                  /\ faults' = faults - FaultUsed(item.email, kind)
                  /\ failed_tasks' = Collect(failed_tasks, item, ok)
                  /\ results' = Append(results, Outcome(item, kind, ok))
                  /\ log' = log \cup {Outcome(item, kind, ok)}
    /\ i' = i + 1
    /\ IF Cooldown(i + 1, Len(queue))
       THEN pauses' = pauses \cup {<<i + 1, KEY_COOLDOWN>>} /\ last_sleep' = KEY_COOLDOWN
       ELSE pauses' = pauses /\ last_sleep' = 0
    /\ UNCHANGED <<run_vars, directory, broken, transients, queue, pass_no,
                   call_vars, total_keys_deleted>>

\* if not failed_tasks: break / else: key_creation_queue = failed_tasks; sleep
MkEndPass ==
    /\ flow = "make" /\ pc = "mk_pass" /\ i = Len(queue)
    /\ EndPass("mk_pass", "done")
    /\ UNCHANGED <<flow, denied, typed, total_target_count, prefix, target, existing_sa_emails, exit_status, provider_vars, call_vars,
                   log, total_keys_deleted>>

\* ------------------------------------------------ list-and-delete (shared)
\* the keys of a set as a list, by ascending id
KeySeq(ks) ==
    [n \in 1..Cardinality(ks) |->
        CHOOSE k \in ks : Cardinality({o \in ks : o[2] < k[2]}) = n - 1]

\* faulty variant: the listing is not restricted to the user-managed keys
ListAllKeyNames(email) == KeySeq(keys[email])

\* list_service_account_keys(key_types=[USER_MANAGED]); [key.name for key in ...]
ListKeyNames(email) == KeySeq({k \in keys[email] : k[1] = "USER_MANAGED"})

\* The ways a key call of the provider can end: OK, a transient error
\* (Aborted, DeadlineExceeded, ServiceUnavailable), or another error.
Answers(email) ==
    IF email \in broken THEN {"FATAL"}
    ELSE {"OK"}
         \cup (IF transients > 0 THEN {"TRANSIENT"} ELSE {})
         \cup (IF faults > 0 THEN {"FATAL"} ELSE {})

Budget(email, ans) ==
    /\ transients' = IF ans = "TRANSIENT" THEN transients - 1 ELSE transients
    /\ faults' = IF ans = "FATAL" /\ email \notin broken THEN faults - 1 ELSE faults

\* the outcomes of a provider call of removesakeys.py: besides the answers
\* above, an exception that is no GoogleAPICallError (RetryError, which the
\* factory catches by name, or an error of the transport or of the
\* credentials); delete_keys_for_account has no handler for it
RmAnswers(email) ==
    Answers(email) \cup (IF faults > 0 THEN {"UNCAUGHT"} ELSE {})

RmBudget(email, ans) ==
    /\ transients' = IF ans = "TRANSIENT" THEN transients - 1 ELSE transients
    /\ faults' = IF ans = "UNCAUGHT" \/ (ans = "FATAL" /\ email \notin broken)
                 THEN faults - 1 ELSE faults

\* the exception leaves delete_keys_for_account and main: the interpreter
\* prints the traceback and the process ends with status 1
Uncaught ==
    /\ Exit(1)
    /\ last_sleep' = 0
    /\ UNCHANGED <<attempt, backoffs, ret>>

\* faulty variant: one attempt too many
HasNextAttemptOffByOne(a) == a + 1 <= RETRIES

\* for attempt in range(retries): is there an attempt after this one
HasNextAttempt(a) == a + 1 < RETRIES

\* the handler of a transient error: sleep(backoff_factor ** attempt), then
\* the next attempt, or the failure after the loop
OnTransient(backoff, list_pc, ret_pc, failure) ==
    /\ backoffs' = Append(backoffs, backoff)
    /\ last_sleep' = backoff
    /\ attempt' = attempt + 1
    /\ IF HasNextAttempt(attempt)
       THEN pc' = list_pc /\ ret' = ret
       ELSE pc' = ret_pc /\ ret' = failure

\* the handler of any other error: return the failure at once
OnFatal(ret_pc, failure) ==
    /\ pc' = ret_pc
    /\ ret' = failure
    /\ last_sleep' = 0
    /\ UNCHANGED <<attempt, backoffs>>

\* the call has returned: its locals are gone
EndCall ==
    /\ attempt' = 0
    /\ backoffs' = <<>>
    /\ calls' = NoCalls
    /\ held' = {}
    /\ key_names' = <<>>
    /\ key_pos' = 0
    /\ keys_deleted_count' = 0
    /\ last_answer' = "NONE"
    /\ UNCHANGED ret

\* a call of list-and-delete starts for the item at the head of the pass
BeginCall(email, list_pc) ==
    /\ pc' = list_pc
    /\ attempt' = 0
    /\ backoffs' = <<>>
    /\ calls' = NoCalls
    /\ held' = {k \in keys[email] : k[1] = "USER_MANAGED"}
    /\ key_names' = <<>>
    /\ key_pos' = 0
    /\ keys_deleted_count' = 0
    /\ last_answer' = "NONE"
    /\ UNCHANGED ret

\* delete_service_account_key(name=key_name) at the provider
ProviderDeleteKey(email, key) == [keys EXCEPT ![email] = @ \ {key}]

\* ------------------------------------------- removesakeys.py: delete-only
\* backoff_factor ** attempt with backoff_factor = 1.5
RmBackoff(a) == (100 * 3 ^ a) \div (2 ^ a)

\* prefix = input(...).strip(); empty prefix: sys.exit(message)
RmInput ==
    /\ flow = "remove" /\ pc = "input"
    /\ \E raw \in PrefixInputs :
          /\ prefix' = Strip(raw)
          /\ IF prefix' = <<>> THEN Exit(1)
             ELSE pc' = "rm_find" /\ UNCHANGED exit_status
    /\ UNCHANGED <<flow, denied, typed, total_target_count, target, existing_sa_emails, provider_vars, pass_vars, call_vars, log,
                   last_sleep, total_keys_deleted>>

\* the accounts of the listing whose account name starts with the prefix
RmTargets(listing, p) ==
    LET Pick(e) == StartsWith(AccountId(e), p)
    IN  SelectSeq(listing, Pick)

\* find_target_service_accounts: any error of the listing is sys.exit(1);
\* no match is sys.exit(0)
RmFind ==
    /\ flow = "remove" /\ pc = "rm_find"
    /\ \/ /\ ~denied
          /\ target' = RmTargets(directory, prefix)
          /\ IF RmTargets(directory, prefix) = <<>> THEN Exit(0)
             ELSE pc' = "rm_confirm" /\ UNCHANGED exit_status
          /\ UNCHANGED faults
       \/ /\ ListingFails
          /\ faults' = ListingBudget
          /\ Exit(1)
          /\ UNCHANGED target
    /\ UNCHANGED <<flow, denied, typed, total_target_count, prefix, existing_sa_emails, directory, keys, key_serial, broken, transients,
                   pass_vars, call_vars, log, last_sleep, total_keys_deleted>>

\* the operator answers the prompt of input("... 'yes' ...")
RmAsk ==
    /\ flow = "remove" /\ pc = "rm_confirm"
    /\ \E raw \in ConfirmInputs : typed' = raw
    /\ pc' = "rm_check"
    /\ UNCHANGED <<flow, denied, total_target_count, prefix, target, existing_sa_emails,
                   exit_status, provider_vars, pass_vars, call_vars, log, last_sleep,
                   total_keys_deleted>>

\* confirm = input(...).lower(); confirm != 'yes'
RmAccepts(text) == Lower(text) = Str(<<"y", "e", "s">>)

\* anything but 'yes': sys.exit(0); else the loop over the accounts begins
RmConfirm ==
    /\ flow = "remove" /\ pc = "rm_check"
    /\ typed' = <<>>
    /\ IF ~RmAccepts(typed)
       THEN Exit(0) /\ UNCHANGED <<pass_vars, log>>
       ELSE /\ StartLoop(target, "rm_loop", "done")
            /\ UNCHANGED exit_status
    /\ UNCHANGED <<flow, denied, total_target_count, prefix, target, existing_sa_emails,
                   provider_vars, call_vars, last_sleep, total_keys_deleted>>

\* for account in target_accounts: delete_keys_for_account(client, sa_email)
RmCall ==
    /\ flow = "remove" /\ pc = "rm_loop" /\ i < Len(queue)
    /\ BeginCall(queue[i + 1], "rm_list")
    /\ last_sleep' = 0
    /\ UNCHANGED <<flow, denied, typed, total_target_count, prefix, target, existing_sa_emails, exit_status, provider_vars, pass_vars, log,
                   total_keys_deleted>>

\* one attempt begins: keys_deleted_count = 0, list the keys
RmListKeys ==
    /\ flow = "remove" /\ pc = "rm_list"
    /\ keys_deleted_count' = 0
    /\ calls' = [calls EXCEPT !.list = @ + 1]
    /\ key_pos' = 0
    /\ \E ans \in RmAnswers(queue[i + 1]) :
          /\ RmBudget(queue[i + 1], ans)
          /\ last_answer' = ans
          /\ CASE ans = "OK" ->
                    /\ key_names' = ListKeyNames(queue[i + 1])
                    /\ IF key_names' = <<>>
                       THEN pc' = "rm_ret" /\ ret' = 0
                       ELSE pc' = "rm_delete" /\ ret' = ret
                    /\ last_sleep' = 0
                    /\ UNCHANGED <<attempt, backoffs, exit_status>>
               [] ans = "TRANSIENT" ->
                    /\ OnTransient(RmBackoff(attempt), "rm_list", "rm_ret", -1)
                    /\ UNCHANGED exit_status
                    /\ UNCHANGED key_names
               [] ans = "FATAL" ->
                    /\ OnFatal("rm_ret", -1)
                    /\ UNCHANGED exit_status
                    /\ UNCHANGED key_names
               [] ans = "UNCAUGHT" ->
                    /\ Uncaught
                    /\ UNCHANGED key_names
    /\ UNCHANGED <<flow, denied, typed, total_target_count, prefix, target, existing_sa_emails, directory, keys, key_serial,
                   broken, pass_vars, held, log, total_keys_deleted>>

\* one round of for key_name in key_names: delete, count, sleep(0.1)
RmDeleteKey ==
    /\ flow = "remove" /\ pc = "rm_delete"
    /\ calls' = [calls EXCEPT !.delete = @ + 1]
    /\ \E ans \in RmAnswers(queue[i + 1]) :
          /\ RmBudget(queue[i + 1], ans)
          /\ last_answer' = ans
          /\ CASE ans = "OK" ->
                    /\ keys' = ProviderDeleteKey(queue[i + 1], key_names[key_pos + 1])
                    /\ keys_deleted_count' = keys_deleted_count + 1
                    /\ key_pos' = key_pos + 1
                    /\ last_sleep' = DELETE_DELAY_RM
                    /\ IF key_pos + 1 = Len(key_names)
                       THEN pc' = "rm_ret" /\ ret' = keys_deleted_count + 1
                       ELSE pc' = "rm_delete" /\ ret' = ret
                    /\ UNCHANGED <<attempt, backoffs, exit_status>>
               [] ans = "TRANSIENT" ->
                    /\ OnTransient(RmBackoff(attempt), "rm_list", "rm_ret", -1)
                    /\ UNCHANGED exit_status
                    /\ UNCHANGED <<keys, keys_deleted_count, key_pos>>
               [] ans = "FATAL" ->
                    /\ OnFatal("rm_ret", -1)
                    /\ UNCHANGED exit_status
                    /\ UNCHANGED <<keys, keys_deleted_count, key_pos>>
               [] ans = "UNCAUGHT" ->
                    /\ Uncaught
                    /\ UNCHANGED <<keys, keys_deleted_count, key_pos>>
    /\ UNCHANGED <<flow, denied, typed, total_target_count, prefix, target, existing_sa_emails, directory, key_serial, broken,
                   pass_vars, key_names, held, log, total_keys_deleted>>

\* faulty variant: the pacing of the key creation loop
RmPauseEveryFourth(ps, k, total) ==
    IF Cooldown(k, total) THEN ps \cup {<<k, KEY_COOLDOWN>>} ELSE ps

\* time.sleep(0.2) after every account, the k-th of total
RmPause(ps, k, total) == ps \cup {<<k, ACCOUNT_DELAY>>}

\* if deleted_count > 0: total_keys_deleted += deleted_count
RmTotal(total, deleted_count) ==
    IF deleted_count > 0 THEN total + deleted_count ELSE total

\* back in main: the total, pbar.update(1), sleep(0.2); no retry queue
RmAfterCall ==
    /\ flow = "remove" /\ pc = "rm_ret"
    /\ total_keys_deleted' = RmTotal(total_keys_deleted, ret)
    /\ LET out == Outcome(queue[i + 1], IF ret >= 0 THEN "DELETED" ELSE "FAILED",
                          ret >= 0)
       IN  results' = Append(results, out) /\ log' = log \cup {out}
    /\ i' = i + 1
    /\ pauses' = RmPause(pauses, i + 1, Len(queue))
    /\ last_sleep' = ACCOUNT_DELAY
    /\ pc' = "rm_loop"
    /\ EndCall
    /\ UNCHANGED <<flow, denied, typed, total_target_count, prefix, target, existing_sa_emails, exit_status, provider_vars, queue,
                   failed_tasks, pass_no>>

\* the for loop is over: the summary is printed
RmFinish ==
    /\ flow = "remove" /\ pc = "rm_loop" /\ i = Len(queue)
    /\ pc' = "done"
    /\ last_sleep' = 0
    /\ UNCHANGED <<flow, denied, typed, total_target_count, prefix, target, existing_sa_emails, exit_status, provider_vars, pass_vars,
                   call_vars, log, total_keys_deleted>>

\* ------------------------------------- serviceaccountfactory.py: factory
\* backoff_factor ** attempt with backoff_factor = 2
FaBackoff(a) == 100 * 2 ^ a

IsDigit(c) == c >= Ord("0") /\ c <= Ord("0") + 9

\* re.match(rf"({prefix}-(\d{{3}}))@", email), for a prefix without regex
\* metacharacters
RegexMatch(p, email) ==
    LET h == p \o Str(<<"-">>)
    IN  /\ StartsWith(email, h)
        /\ Len(email) >= Len(h) + 4
        /\ \A j \in 1..3 : IsDigit(email[Len(h) + j])
        /\ email[Len(h) + 4] = Ord("@")

\* int(match.group(2))
RegexNumber(p, email) ==
    LET h == Len(p) + 1
    IN  100 * (email[h + 1] - Ord("0")) + 10 * (email[h + 2] - Ord("0"))
        + (email[h + 3] - Ord("0"))

\* sorted(numbers)
SortedNums(ns) ==
    [n \in 1..Cardinality(ns) |->
        CHOOSE m \in ns : Cardinality({o \in ns : o < m}) = n - 1]

\* sorted(set of strings)
SortedSet(ss) ==
    [n \in 1..Cardinality(ss) |->
        CHOOSE m \in ss : Cardinality({o \in ss : StrLess(o, m)}) = n - 1]

Reverse(q) == [k \in 1..Len(q) |-> q[Len(q) + 1 - k]]

\* list(a set): the iteration order of a set is not specified
ListOfSet(ss) == {SortedSet(ss), Reverse(SortedSet(ss))}

\* target_sa_names and target_sa_emails
TargetNames(p, n) == {SaName(p, k) : k \in 1..n}

TargetEmails(names) == {EmailOf(name) : name \in names}

\* faulty variant: one target account in the listing is taken for all of them
MissingUnlessAny(names, listing) ==
    IF TargetEmails(names) \cap Range(listing) # {} THEN {}
    ELSE TargetEmails(names) \ Range(listing)

\* missing_sa_emails = target_sa_emails - existing_sa_emails
Missing(names, listing) == TargetEmails(names) \ Range(listing)

\* the numbers of the missing addresses the regular expression matches
SaToCreate(p, missing) ==
    {RegexNumber(p, e) : e \in {m \in missing : RegexMatch(p, m)}}

\* the prompts: the prefix, the target count, and the operator's answer to
\* input("... 'y' ...")
FaInput ==
    /\ flow = "factory" /\ pc = "input"
    /\ \E raw \in FaPrefixInputs, n \in TargetCountsFor(directory),
          answer \in ConfirmInputs :
          /\ prefix' = Strip(Lower(raw))
          /\ total_target_count' = n
          /\ typed' = answer
    /\ pc' = "fa_confirm"
    /\ UNCHANGED <<flow, denied, target, existing_sa_emails, exit_status, provider_vars,
                   pass_vars, call_vars, log, last_sleep, total_keys_deleted>>

\* faulty variant: the answer is not tested
FaAcceptsAnything(text) == TRUE

\* input(...).lower() != 'y'
FaAccepts(text) == Lower(text) = Str(<<"y">>)

\* anything but 'y': sys.exit(message); else the target sets are built
FaConfirm ==
    /\ flow = "factory" /\ pc = "fa_confirm"
    /\ typed' = <<>>
    /\ IF ~FaAccepts(typed)
       THEN Exit(1) /\ UNCHANGED target
       ELSE /\ target' = TargetNames(prefix, total_target_count)
            /\ pc' = "fa_reconcile"
            /\ UNCHANGED exit_status
    /\ UNCHANGED <<flow, denied, total_target_count, prefix, existing_sa_emails,
                   provider_vars, pass_vars, call_vars, log, last_sleep,
                   total_keys_deleted>>

\* one round of while True up to the decision: list, diff, break or create;
\* any exception: sleep(10) and round again
FaReconcile ==
    /\ flow = "factory" /\ pc = "fa_reconcile"
    /\ \/ /\ ~denied
          /\ existing_sa_emails' = Range(directory)
          /\ IF Missing(target, directory) = {}
             THEN \E q \in ListOfSet(TargetEmails(target)) :
                     StartLoop(q, "fa_del_loop", "fa_step3")
             ELSE /\ queue' = SortedNums(SaToCreate(prefix, Missing(target, directory)))
                  /\ i' = 0
                  /\ pauses' = {}
                  /\ results' = <<>>
                  /\ pass_no' = NextPass(pass_no)
                  /\ failed_tasks' = <<>>
                  /\ log' = log
                  /\ pc' = "fa_create"
          /\ last_sleep' = 0
          /\ UNCHANGED faults
       \/ /\ ListingFails
          /\ faults' = ListingBudget
          /\ last_sleep' = ERROR_DELAY
          /\ UNCHANGED <<pc, pass_vars, log, existing_sa_emails>>
    /\ UNCHANGED <<flow, denied, typed, total_target_count, prefix, target, exit_status, directory, keys, key_serial,
                   broken, transients, call_vars, total_keys_deleted>>

\* create_service_account at the provider: the account appears in the
\* directory with its provider-managed key
ProviderCreateAccount(email) ==
    /\ directory' = Append(directory, email)
    /\ keys' = [e \in DOMAIN keys \cup {email} |->
                   IF e = email THEN {SystemKey(0)} ELSE keys[e]]
    /\ key_serial' = [e \in DOMAIN key_serial \cup {email} |->
                         IF e = email THEN 0 ELSE key_serial[e]]

\* The ways one create_service_account call can end: CREATED or
\* ALREADY_EXISTS are the provider's normal answers, FAILED an injected error.
AccountKinds(email) ==
    (IF email \in Range(directory) THEN {"ALREADY_EXISTS"} ELSE {"CREATED"})
    \cup (IF faults > 0 THEN {"FAILED"} ELSE {})

\* the value create_service_account returns
FaAccountReturns(kind) == kind \in {"CREATED", "ALREADY_EXISTS"}

\* one round of the for loop over sorted(sa_to_create); the value returned
\* by create_service_account is not used
FaCreateAccount ==
    /\ flow = "factory" /\ pc = "fa_create" /\ i < Len(queue)
    /\ LET name == SaName(prefix, queue[i + 1])
       IN  \E kind \in AccountKinds(EmailOf(name)) :
              /\ IF kind = "CREATED" THEN ProviderCreateAccount(EmailOf(name))
                 ELSE UNCHANGED <<directory, keys, key_serial>>
              /\ faults' = IF kind = "FAILED" THEN faults - 1 ELSE faults
              /\ LET out == Outcome(name, kind, FaAccountReturns(kind))
                 IN  results' = Append(results, out) /\ log' = log \cup {out}
    /\ i' = i + 1
    /\ IF Cooldown(i + 1, Len(queue))
       THEN /\ pauses' = pauses \cup {<<i + 1, ACCOUNT_COOLDOWN>>}
            /\ last_sleep' = ACCOUNT_COOLDOWN
       ELSE pauses' = pauses /\ last_sleep' = 0
    /\ UNCHANGED <<run_vars, broken, transients, queue, failed_tasks, pass_no,
                   call_vars, total_keys_deleted>>

\* after the creates: sleep(5), then the next round of while True
FaSettle ==
    /\ flow = "factory" /\ pc = "fa_create" /\ i = Len(queue)
    /\ last_sleep' = SETTLE_DELAY
    /\ pc' = "fa_reconcile"
    /\ UNCHANGED <<flow, denied, typed, total_target_count, prefix, target, existing_sa_emails, exit_status, provider_vars, pass_vars,
                   call_vars, log, total_keys_deleted>>

\* for sa_email in key_deletion_queue: delete_all_user_keys_with_retry(...)
FaDelCall ==
    /\ flow = "factory" /\ pc = "fa_del_loop" /\ i < Len(queue)
    /\ BeginCall(queue[i + 1], "fa_list")
    /\ last_sleep' = 0
    /\ UNCHANGED <<flow, denied, typed, total_target_count, prefix, target, existing_sa_emails, exit_status, provider_vars, pass_vars, log,
                   total_keys_deleted>>

\* one attempt begins: list the keys
FaListKeys ==
    /\ flow = "factory" /\ pc = "fa_list"
    /\ calls' = [calls EXCEPT !.list = @ + 1]
    /\ key_pos' = 0
    /\ \E ans \in Answers(queue[i + 1]) :
          /\ Budget(queue[i + 1], ans)
          /\ last_answer' = ans
          /\ CASE ans = "OK" ->
                    /\ key_names' = ListKeyNames(queue[i + 1])
                    /\ IF key_names' = <<>>
                       THEN pc' = "fa_ret" /\ ret' = TRUE
                       ELSE pc' = "fa_delete" /\ ret' = ret
                    /\ last_sleep' = 0
                    /\ UNCHANGED <<attempt, backoffs>>
               [] ans = "TRANSIENT" ->
                    /\ OnTransient(FaBackoff(attempt), "fa_list", "fa_ret", FALSE)
                    /\ UNCHANGED key_names
               [] ans = "FATAL" ->
                    /\ OnFatal("fa_ret", FALSE)
                    /\ UNCHANGED key_names
    /\ UNCHANGED <<flow, denied, typed, total_target_count, prefix, target, existing_sa_emails, exit_status, directory, keys, key_serial,
                   broken, pass_vars, keys_deleted_count, held, log,
                   total_keys_deleted>>

\* one round of for key_name in key_names: delete, sleep(0.05)
FaDeleteKey ==
    /\ flow = "factory" /\ pc = "fa_delete"
    /\ calls' = [calls EXCEPT !.delete = @ + 1]
    /\ \E ans \in Answers(queue[i + 1]) :
          /\ Budget(queue[i + 1], ans)
          /\ last_answer' = ans
          /\ CASE ans = "OK" ->
                    /\ keys' = ProviderDeleteKey(queue[i + 1], key_names[key_pos + 1])
                    /\ key_pos' = key_pos + 1
                    /\ last_sleep' = DELETE_DELAY_FA
                    /\ IF key_pos + 1 = Len(key_names)
                       THEN pc' = "fa_ret" /\ ret' = TRUE
                       ELSE pc' = "fa_delete" /\ ret' = ret
                    /\ UNCHANGED <<attempt, backoffs>>
               [] ans = "TRANSIENT" ->
                    /\ OnTransient(FaBackoff(attempt), "fa_list", "fa_ret", FALSE)
                    /\ UNCHANGED <<keys, key_pos>>
               [] ans = "FATAL" ->
                    /\ OnFatal("fa_ret", FALSE)
                    /\ UNCHANGED <<keys, key_pos>>
    /\ UNCHANGED <<flow, denied, typed, total_target_count, prefix, target, existing_sa_emails, exit_status, directory, key_serial, broken,
                   pass_vars, key_names, keys_deleted_count, held, log,
                   total_keys_deleted>>

\* back in main: failed_tasks, pbar.update(1); no pause
FaAfterDelete ==
    /\ flow = "factory" /\ pc = "fa_ret"
    /\ failed_tasks' = Collect(failed_tasks, queue[i + 1], ret)
    /\ LET out == Outcome(queue[i + 1], IF ret THEN "DELETED" ELSE "FAILED", ret)
       IN  results' = Append(results, out) /\ log' = log \cup {out}
    /\ i' = i + 1
    /\ last_sleep' = 0
    /\ pc' = "fa_del_loop"
    /\ EndCall
    /\ UNCHANGED <<flow, denied, typed, total_target_count, prefix, target, existing_sa_emails, exit_status, provider_vars, queue, pass_no,
                   pauses, total_keys_deleted>>

\* if not failed_tasks: break / else: key_deletion_queue = failed_tasks; sleep
FaDelEndPass ==
    /\ flow = "factory" /\ pc = "fa_del_loop" /\ i = Len(queue)
    /\ EndPass("fa_del_loop", "fa_step3")
    /\ UNCHANGED <<flow, denied, typed, total_target_count, prefix, target, existing_sa_emails, exit_status, provider_vars, call_vars,
                   log, total_keys_deleted>>

\* key_creation_queue = list(sorted(target_sa_names))
FaStep3 ==
    /\ flow = "factory" /\ pc = "fa_step3"
    /\ StartLoop(SortedSet(target), "fa_key_pass", "done")
    /\ last_sleep' = 0
    /\ UNCHANGED <<flow, denied, typed, total_target_count, prefix, target, existing_sa_emails, exit_status, provider_vars, call_vars,
                   total_keys_deleted>>

\* faulty variant: the key limit is treated as handled, as makesakeys.py does
FaReturnsLimitHandled(kind) == kind \in {"SAVED", "LIMIT_REACHED"}

\* the value create_and_save_key of serviceaccountfactory.py returns
FaReturns(kind) == kind = "SAVED"

\* one round of the for loop: create_and_save_key, failed_tasks, cooldown
FaCreateKey ==
    /\ flow = "factory" /\ pc = "fa_key_pass" /\ i < Len(queue)
    /\ LET sa_name == queue[i + 1]
           sa_email == EmailOf(sa_name)
       IN  \E kind \in CreateKinds(sa_email) :
              LET ok == FaReturns(kind)
              IN  /\ ProviderCreateKey(sa_email, kind)
                  /\ faults' = faults - FaultUsed(sa_email, kind)
                  /\ failed_tasks' = Collect(failed_tasks, sa_name, ok)
                  /\ results' = Append(results, Outcome(sa_name, kind, ok))
                  /\ log' = log \cup {Outcome(sa_name, kind, ok)}
    /\ i' = i + 1
    /\ IF Cooldown(i + 1, Len(queue))
       THEN pauses' = pauses \cup {<<i + 1, KEY_COOLDOWN>>} /\ last_sleep' = KEY_COOLDOWN
       ELSE pauses' = pauses /\ last_sleep' = 0
    /\ UNCHANGED <<run_vars, directory, broken, transients, queue, pass_no,
                   call_vars, total_keys_deleted>>

\* if not failed_tasks: break / else: key_creation_queue = failed_tasks; sleep
FaKeyEndPass ==
    /\ flow = "factory" /\ pc = "fa_key_pass" /\ i = Len(queue)
    /\ EndPass("fa_key_pass", "done")
    /\ UNCHANGED <<flow, denied, typed, total_target_count, prefix, target, existing_sa_emails, exit_status, provider_vars, call_vars,
                   log, total_keys_deleted>>

\* ------------------------------------------- the provider's other clients
\* Somebody else creates or deletes an account while a tool is at work.  The
\* tools list the directory before their per-account work only, so one such
\* event is placed where the work is under way: at the head of a first
\* retry pass of one item, or before the last account of the delete-only loop.
Newcomer == EmailOf(SaName(SaPrefix, 0))

\* the addresses of the accounts the run works on
TargetAddresses ==
    CASE flow = "make" -> {target[k].email : k \in 1..Len(target)}
      [] flow = "remove" -> Range(target)
      [] flow = "factory" -> TargetEmails(target)

\* the address of the next item of the running pass
NextAddress ==
    CASE flow = "make" -> queue[i + 1].email
      [] flow = "factory" /\ pc = "fa_key_pass" -> EmailOf(queue[i + 1])
      [] OTHER -> queue[i + 1]

AtWork ==
    \/ /\ pc \in {"mk_pass", "fa_del_loop", "fa_key_pass"}
       /\ pass_no = 2 /\ i = 0 /\ Len(queue) = 1
    \/ pc = "rm_loop" /\ i >= 1 /\ i + 1 = Len(queue)

Undisturbed ==
    /\ Newcomer \notin Range(directory)
    /\ TargetAddresses \subseteq Range(directory)

\* an account whose name starts with the prefix appears, with one key
AccountAppears ==
    /\ AtWork /\ Undisturbed
    /\ directory' = Append(directory, Newcomer)
    /\ keys' = [e \in DOMAIN keys \cup {Newcomer} |->
                   IF e = Newcomer THEN {SystemKey(0), UserKey(1)} ELSE keys[e]]
    /\ key_serial' = [e \in DOMAIN key_serial \cup {Newcomer} |->
                         IF e = Newcomer THEN 1 ELSE key_serial[e]]
    /\ UNCHANGED <<run_vars, broken, faults, transients, pass_vars, call_vars, log,
                   last_sleep, total_keys_deleted>>

\* the account of the next item is deleted, with its keys: every later call
\* for it ends with an error (NotFound)
AccountDisappears ==
    /\ AtWork /\ Undisturbed
    /\ LET Stays(e) == e # NextAddress
       IN  directory' = SelectSeq(directory, Stays)
    /\ keys' = [keys EXCEPT ![NextAddress] = {}]
    /\ broken' = broken \cup {NextAddress}
    /\ UNCHANGED <<run_vars, key_serial, faults, transients, pass_vars, call_vars, log,
                   last_sleep, total_keys_deleted>>

\* ------------------------------------------------------------ specification
Next ==
    \/ MkInput
    \/ MkList
    \/ MkCreateKey
    \/ MkEndPass
    \/ RmInput
    \/ RmFind
    \/ RmAsk
    \/ RmConfirm
    \/ RmCall
    \/ RmListKeys
    \/ RmDeleteKey
    \/ RmAfterCall
    \/ RmFinish
    \/ FaInput
    \/ FaConfirm
    \/ FaReconcile
    \/ FaCreateAccount
    \/ FaSettle
    \/ FaDelCall
    \/ FaListKeys
    \/ FaDeleteKey
    \/ FaAfterDelete
    \/ FaDelEndPass
    \/ FaStep3
    \/ FaCreateKey
    \/ FaKeyEndPass
    \/ AccountAppears
    \/ AccountDisappears

Spec == Init /\ [][Next]_vars

\* the program runs on: a step that can be taken is taken
FairSpec == LiveInit /\ [][Next]_vars /\ WF_vars(Next)

\* ------------------------------------------------------------------ claims
\* positions inside the three pass loops of the batch driver
KeyCreationLoop == pc \in {"mk_pass", "fa_key_pass"}

KeyDeletionLoop == pc \in {"fa_del_loop", "fa_list", "fa_delete", "fa_ret"}

PassLoop == KeyCreationLoop \/ KeyDeletionLoop

\* the for loop of the running pass is over
PassOver == pc \in {"mk_pass", "fa_del_loop", "fa_key_pass"} /\ i = Len(queue)

\* the items of the running pass whose operation returned failure, in order
FailedItems ==
    LET Bad(r) == ~r.ok
        bad == SelectSeq(results, Bad)
    IN  [k \in 1..Len(bad) |-> bad[k].item]

Succeeded(item) == \E r \in log : r.item = item /\ r.ok

NoDuplicates(q) == \A a, b \in 1..Len(q) : q[a] = q[b] => a = b

\* C1: in each pass loop the items are processed in queue order; when a pass
\* is over, the next pass gets exactly the items that failed in it, in the
\* same order and once each, and the loop ends if none failed; an item that
\* succeeded is never processed again.
C1_Processed ==
    PassLoop =>
        /\ Len(results) = i
        /\ \A k \in 1..i : results[k].item = queue[k]
        /\ NoDuplicates(queue)
        /\ \A k \in (i + 1)..Len(queue) : ~Succeeded(queue[k])

C1_NextPass ==
    PassOver =>
        IF FailedItems = <<>>
        THEN pc' \notin {"mk_pass", "fa_del_loop", "fa_key_pass"}
        ELSE queue' = FailedItems /\ i' = 0 /\ pc' = pc

C1_RetryQueueIsFailures == [](C1_Processed) /\ [][C1_NextPass]_vars

C1_Witness ==
    /\ flow = "make" /\ pc = "mk_pass"
    /\ pass_no = 2 /\ Len(queue) = 2 /\ i = 2
    /\ \E r \in log : r.pass = 1 /\ r.ok

\* the items the running pass loop started with
InitialItems ==
    CASE flow = "make" -> Range(target)
      [] flow = "factory" /\ (KeyDeletionLoop \/ pc = "fa_step3") -> TargetEmails(target)
      [] flow = "factory" /\ pc \in {"fa_key_pass", "done"} -> target
      [] OTHER -> {}

LoopEnded ==
    \/ flow = "make" /\ pc = "done"
    \/ flow = "factory" /\ pc \in {"fa_step3", "done"}

\* the address of an item of a pass loop
ItemEmail(item) ==
    CASE flow = "make" -> item.email
      [] flow = "factory" /\ (KeyDeletionLoop \/ pc = "fa_step3") -> item
      [] OTHER -> EmailOf(item)

\* an item of the running loop that has not succeeded yet
Pending(item) ==
    \/ \E k \in (i + 1)..Len(queue) : queue[k] = item
    \/ item \in Range(failed_tasks)

\* an item whose operation fails on every attempt from now on: its account
\* is broken, or it is at the key limit in the factory, where the answer
\* LIMIT_REACHED is returned as a failure and nothing deletes a key
Hopeless(item) ==
    /\ Pending(item)
    /\ \/ ItemEmail(item) \in broken
       \/ /\ pc = "fa_key_pass"
          /\ Cardinality(UserKeysOf(ItemEmail(item))) >= KeyLimit

SomeHopeless == PassLoop /\ \E item \in InitialItems : Hopeless(item)

\* C2: a pass loop has ended only if every item it started with has had its
\* operation return success; with an item whose operation fails on every
\* attempt it never ends (there is no maximum pass count); and when every
\* item's operation eventually returns success, it ends.
C2_EndedOnlyWhenAllSucceeded ==
    LoopEnded => \A item \in InitialItems : Succeeded(item)

C2_Stuck == SomeHopeless => SomeHopeless'

C2_Ends == (PassLoop /\ ~SomeHopeless) ~> (LoopEnded \/ SomeHopeless)

C2_Termination ==
    [](C2_EndedOnlyWhenAllSucceeded) /\ [][C2_Stuck]_vars /\ C2_Ends

C2_Witness ==
    /\ flow = "make" /\ pc = "mk_pass"
    /\ pass_no >= 3 /\ i = Len(queue)
    /\ SomeHopeless
    /\ \E item \in InitialItems : Succeeded(item)

\* C3: if one item X failed in the first pass and succeeded in the second
\* while every other item succeeded in the first, the loop ended after two
\* passes, the second pass held X alone and no failure is left.
OneRetryOf(x) ==
    /\ \E r \in log : r.item = x /\ r.pass = 1 /\ ~r.ok
    /\ \E r \in log : r.item = x /\ r.pass = 2 /\ r.ok
    /\ \A y \in InitialItems \ {x} : \E r \in log : r.item = y /\ r.pass = 1 /\ r.ok

C3_RetryConvergence ==
    LoopEnded =>
        \A x \in InitialItems :
            OneRetryOf(x) => pass_no = 2 /\ queue = <<x>> /\ failed_tasks = <<>>

C3_Witness ==
    /\ flow = "make" /\ pc = "done"
    /\ Len(target) >= 3
    /\ \E x \in InitialItems : OneRetryOf(x)

\* the kinds of outcome that are an unexpected error of a key creation
Unexpected == {"FAILED", "UNSAVED", "INVALID_ARGUMENT"}

\* C4 as claimed: in both key creation loops SAVED and LIMIT_REACHED are not
\* put in the failure queue and not attempted again; only an unexpected
\* error is.
C4_Original ==
    KeyCreationLoop =>
        /\ \A k \in 1..Len(results) :
              /\ results[k].kind \in {"SAVED", "LIMIT_REACHED"}
                    => results[k].item \notin Range(failed_tasks)
              /\ results[k].item \in Range(failed_tasks)
                    => results[k].kind \in Unexpected
        /\ \A item \in InitialItems :
              Pending(item) =>
                  ~\E r \in log : r.item = item /\ r.kind \in {"SAVED", "LIMIT_REACHED"}

\* C4 amended: in the discovery flow SAVED and LIMIT_REACHED (and another
\* InvalidArgument) are not put in the failure queue and not attempted again,
\* FAILED is; in the factory flow only SAVED is terminal: LIMIT_REACHED is
\* put in the failure queue like FAILED.
C4_LimitReachedByFlow ==
    /\ pc = "mk_pass" =>
          /\ \A k \in 1..Len(results) :
                results[k].item \in Range(failed_tasks)
                    <=> results[k].kind \in {"FAILED", "UNSAVED"}
          /\ \A item \in InitialItems :
                Pending(item) =>
                    ~\E r \in log : r.item = item
                                    /\ r.kind \in {"SAVED", "LIMIT_REACHED"}
    /\ pc = "fa_key_pass" =>
          /\ \A k \in 1..Len(results) :
                results[k].item \in Range(failed_tasks)
                    <=> results[k].kind # "SAVED"
          /\ \A item \in InitialItems :
                Pending(item) => ~\E r \in log : r.item = item /\ r.kind = "SAVED"

C4_Witness ==
    /\ pc = "fa_key_pass"
    /\ \E k \in 1..Len(results) :
          /\ results[k].kind = "LIMIT_REACHED"
          /\ results[k].item \in Range(failed_tasks)

\* C5: in a pass of key creations or account creations the pauses made so
\* far are exactly those after the items k with k a multiple of 4 and
\* k < n, of 10 s for keys and 20 s for accounts; a pass of 9 items has the
\* two pauses after items 4 and 8, a pass of 4 or 8 items none after its last.
C5_Cooldown ==
    pc \in {"mk_pass", "fa_key_pass", "fa_create"} =>
        LET d == IF pc = "fa_create" THEN 2000 ELSE 1000
            n == Len(queue)
        IN  /\ pauses = {<<k, d>> : k \in {j \in 1..i : j % 4 = 0 /\ j < n}}
            /\ (n = 9 /\ i = 9) => pauses = {<<4, d>>, <<8, d>>}
            /\ n \in {4, 8} => <<n, d>> \notin pauses
            /\ last_sleep = IF <<i, d>> \in pauses THEN d
                            ELSE IF i = 0 /\ pass_no > 1 /\ pc # "fa_create" THEN 1000
                            ELSE last_sleep

C5_Witness ==
    /\ pc = "mk_pass"
    /\ Len(queue) = 9 /\ i = 9
    /\ pauses = {<<4, 1000>>, <<8, 1000>>}

\* positions inside the for loop of the delete-only run
RemoveLoop == pc \in {"rm_loop", "rm_list", "rm_delete", "rm_ret"}

\* C6 as claimed: in a key deletion batch every 4th processed account but
\* the last is followed by a pause of 10 s.
C6_Original ==
    (RemoveLoop \/ KeyDeletionLoop) =>
        \A k \in 1..i : (k % 4 = 0 /\ k < Len(queue)) => <<k, 1000>> \in pauses

\* C6 amended: key deletion is not paced by a window of 4: in the factory's
\* deletion step no pause follows a processed account; in the delete-only
\* flow every processed account, the last too, is followed by 0.2 s.
C6_DeletionPacing ==
    /\ KeyDeletionLoop => pauses = {}
    /\ (RemoveLoop \/ (flow = "remove" /\ pc = "done"))
          => pauses = {<<k, 20>> : k \in 1..i}

C6_Witness ==
    /\ flow = "remove" /\ pc = "done"
    /\ Len(queue) = 5 /\ i = 5
    /\ pauses = {<<k, 20>> : k \in 1..5}

\* C7 as claimed: a call of delete_keys_for_account that does not end in
\* failure has issued exactly K delete-key calls and returns K, K being the
\* number of user-managed keys the account held when it was called.
C7_Claim ==
    (pc = "rm_ret" /\ ret >= 0) =>
        /\ ret = Cardinality(held)
        /\ calls.delete = Cardinality(held)

\* positions inside a call of list-and-delete
InCall == pc \in {"rm_list", "rm_delete", "rm_ret", "fa_list", "fa_delete", "fa_ret"}

Returned == pc \in {"rm_ret", "fa_ret"}

ReturnedFailure == Returned /\ IF flow = "remove" THEN ret = -1 ELSE ret = FALSE

\* C8: a call of list-and-delete makes at most 3 attempts; the transient
\* error of attempt a is followed by a wait of backoff_factor ** a (1, 1.5,
\* 2.25 s in the delete-only flow, 1, 2, 4 s in the factory) and, if a < 2,
\* by an attempt that lists again; after the third the call returns the
\* failure; another error returns the failure at once.
C8_BoundedAttempts ==
    InCall =>
        LET waits == IF flow = "remove" THEN <<100, 150, 225>> ELSE <<100, 200, 400>>
        IN  /\ attempt <= 3 /\ calls.list <= 3
            /\ backoffs = SubSeq(waits, 1, attempt)
            /\ ~Returned => attempt <= 2
            /\ pc \in {"rm_list", "fa_list"} => calls.list = attempt
            /\ pc \in {"rm_delete", "fa_delete"} => calls.list = attempt + 1
            /\ last_answer = "TRANSIENT" =>
                  /\ last_sleep = waits[attempt]
                  /\ IF attempt < 3 THEN pc \in {"rm_list", "fa_list"}
                     ELSE ReturnedFailure
            /\ last_answer = "FATAL" => ReturnedFailure
            /\ attempt = 3 => ReturnedFailure

C8_Witness ==
    /\ pc = "rm_ret" /\ ret = -1
    /\ attempt = 3 /\ calls.list = 3
    /\ backoffs = <<100, 150, 225>>

C9_State ==
    /\ (flow = "factory" /\ pc = "fa_step3")
          => \A e \in TargetEmails(target) : Succeeded(e)
    /\ (RemoveLoop \/ (flow = "remove" /\ pc = "done")) =>
          /\ pass_no = 1 /\ queue = target /\ Len(results) = i
          /\ \A k \in 1..i : results[k].item = target[k]
          /\ failed_tasks = <<>>
          /\ pc = "done" => i = Len(target)

C9_Step ==
    (pc = "fa_del_loop" /\ i = Len(queue) /\ FailedItems # <<>>)
        => (pc' = "fa_del_loop" /\ queue' = FailedItems /\ pass_no' > 1)

AfterReconcile ==
    /\ flow = "factory"
    /\ \/ KeyDeletionLoop
       \/ pc \in {"fa_step3", "fa_key_pass", "done"}

\* C10: the factory is past the reconcile loop only after a listing that
\* held every target address; a listing that lacks one leads to the creates
\* and back to a new listing, and so does an error, after its delay.
C10_State ==
    AfterReconcile =>
        /\ TargetEmails(target) \subseteq existing_sa_emails
        /\ TargetEmails(target) \subseteq Range(directory) \cup broken

C10_Step ==
    /\ pc = "fa_reconcile" =>
          /\ pc' \in {"fa_reconcile", "fa_create", "fa_del_loop", "fa_step3"}
          /\ pc' = "fa_reconcile" => (last_sleep' = 1000 /\ (denied \/ faults' < faults))
          /\ pc' = "fa_create" =>
                /\ existing_sa_emails' = Range(directory)
                /\ ~(TargetEmails(target) \subseteq existing_sa_emails')
          /\ pc' \in {"fa_del_loop", "fa_step3"} =>
                /\ existing_sa_emails' = Range(directory)
                /\ TargetEmails(target) \subseteq existing_sa_emails'
    /\ pc = "fa_create" => pc' \in {"fa_create", "fa_reconcile"}

C10_ReconcileExit == [](C10_State) /\ [][C10_Step]_vars

C10_Witness ==
    /\ flow = "factory" /\ pc = "fa_del_loop" /\ i = 0 /\ pass_no = 1
    /\ Cardinality(target) = MaxTarget
    /\ faults < MaxFaults
    /\ directory # Listing(0)

\* the target names whose address the last listing did not hold
MissingNames == {name \in target : EmailOf(name) \notin existing_sa_emails}

\* the names of the create-account calls issued in the running iteration
CreateCalls == [k \in 1..Len(results) |-> results[k].item]

\* C11 as claimed: the create-account calls of a reconcile iteration are for
\* missing names only, one call for a name, and when the creates of the
\* iteration are over every missing name has had its call; no iteration
\* creates when nothing is missing.
C11_Claim ==
    (flow = "factory" /\ pc = "fa_create") =>
        /\ MissingNames # {}
        /\ Range(CreateCalls) \subseteq MissingNames
        /\ NoDuplicates(CreateCalls)
        /\ i = Len(queue) => Range(CreateCalls) = MissingNames

\* the user-managed keys an account of the starting directory held
HeldBefore(e) ==
    {UserKey(j) : j \in 1..(IF ListingNumber(e) > 0
                            THEN InitKeyCount(ListingNumber(e)) ELSE 1)}

\* C12: a discovery run issues no list-keys and no delete-key call; no step
\* of the run takes a key from an account, and every account still in the
\* directory holds every user-managed key it held before the run, whatever
\* the successes, failures and retry passes.
C12_State ==
    flow = "make" =>
        /\ calls = NoCalls
        /\ \A e \in Range(directory) : HeldBefore(e) \subseteq keys[e]

C12_Step ==
    flow = "make" =>
        \A e \in Range(directory') \cap DOMAIN keys : keys[e] \subseteq keys'[e]

C12_NoDeletion == [](C12_State) /\ [][C12_Step]_vars

C12_Witness ==
    /\ flow = "make" /\ pc = "done" /\ pass_no >= 2
    /\ \E e \in TargetAddresses :
          /\ e \in Range(directory)
          /\ Cardinality(HeldBefore(e)) = KeyLimit - 1
          /\ UserKeysOf(e) = HeldBefore(e) \cup {UserKey(KeyLimit)}

\* C13: in a factory run a delete-key call is issued only after the
\* reconcile loop has exited, on a listing that held every target address;
\* the key creation starts only from the end of the deletion step, where
\* every target account has had a list-and-delete call that returned
\* success, and a key is created in the creation step only; the steps are
\* never gone back to; so when the first create-key call is issued no
\* target account holds a user-managed key.
C13_State ==
    flow = "factory" =>
        /\ pc \in {"input", "fa_confirm", "fa_reconcile", "fa_create"} => calls = NoCalls
        /\ pc = "fa_step3" => \A e \in TargetEmails(target) : Succeeded(e)
        /\ (pc = "fa_step3" \/ (pc = "fa_key_pass" /\ pass_no = 1 /\ i = 0))
              => \A e \in TargetEmails(target) : UserKeysOf(e) = {}

C13_Step ==
    flow = "factory" =>
        /\ calls'.delete > calls.delete =>
              /\ pc = "fa_delete"
              /\ TargetEmails(target) \subseteq existing_sa_emails
        /\ (pc' = "fa_key_pass" /\ pc # "fa_key_pass") =>
              /\ pc = "fa_step3"
              /\ \A e \in TargetEmails(target) : Succeeded(e)
        /\ (\E e \in DOMAIN key_serial : key_serial'[e] > key_serial[e])
              => pc = "fa_key_pass"
        /\ AfterReconcile
              => pc' \notin {"input", "fa_confirm", "fa_reconcile", "fa_create"}
        /\ pc \in {"fa_step3", "fa_key_pass", "done"}
              => pc' \in {"fa_step3", "fa_key_pass", "done"}

C13_StepsInOrder == [](C13_State) /\ [][C13_Step]_vars

C13_Witness ==
    /\ flow = "factory" /\ pc = "fa_key_pass" /\ pass_no = 1 /\ i = 0
    /\ \E e \in TargetEmails(target) : key_serial[e] = KeyLimit /\ UserKeysOf(e) = {}

\* positions of the per-account work of a run
Working ==
    \/ PassLoop
    \/ RemoveLoop
    \/ pc \in {"fa_step3", "done"}

\* C14: while a run does its per-account work the target set does not
\* change; every item of the queue of a pass, the retry passes too, is a
\* member of it, and every member that has not succeeded is still in the
\* queue; an account that appears in the directory or disappears from it
\* changes neither the target set nor the queue.
C14_State ==
    /\ PassLoop =>
          /\ Range(queue) \subseteq InitialItems
          /\ Range(failed_tasks) \subseteq InitialItems
          /\ \A item \in InitialItems : Succeeded(item) \/ item \in Range(queue)
    /\ RemoveLoop => queue = target

C14_Step ==
    /\ Working => target' = target
    /\ (Working /\ directory' # directory) =>
          /\ pc' \in {pc, "fa_del_loop", "fa_step3"}
          /\ pc' = pc => (queue' = queue /\ failed_tasks' = failed_tasks /\ i' = i)

C14_TargetFixed == [](C14_State) /\ [][C14_Step]_vars

C14_Witness ==
    /\ flow = "make" /\ pc = "mk_pass" /\ pass_no >= 3 /\ i = 1
    /\ ~(TargetAddresses \subseteq Range(directory))
    /\ queue[1].email \notin Range(directory)

\* C15 as claimed: with a caller that lacks the list permission a run is
\* before its listing, or has exited with a non-zero status; the listing is
\* not called again (no sleep follows it), and no key call and no create
\* call has been issued.
C15_Claim ==
    denied =>
        /\ pc \in {"input", "fa_confirm", "mk_list", "rm_find", "fa_reconcile", "exit"}
        /\ pc = "exit" => exit_status > 0
        /\ pc \in {"mk_list", "rm_find", "fa_reconcile"} => last_sleep = 0
        /\ calls = NoCalls
        /\ results = <<>>

\* positions of a run before the program has accepted the confirmation
Unconfirmed ==
    \/ flow = "remove" /\ pc \in {"input", "rm_find", "rm_confirm", "rm_check"}
    \/ flow = "factory" /\ pc \in {"input", "fa_confirm"}

\* no key call has been issued and no key is gone
NoKeyCall ==
    /\ calls = NoCalls
    /\ total_keys_deleted = 0
    /\ \A e \in Range(directory) : HeldBefore(e) \subseteq keys[e]

\* no provider call has been issued
NoProviderCall ==
    /\ NoKeyCall
    /\ existing_sa_emails = {}
    /\ results = <<>>
    /\ last_sleep = 0
    /\ faults = MaxFaults /\ transients = MaxTransient

\* the delete-only run has ended before its loop over the accounts began
RmEndedEarly == pc = "exit" /\ queue = <<>>

C16_State ==
    /\ (flow = "remove" /\ (Unconfirmed \/ RmEndedEarly)) => NoKeyCall
    /\ (flow = "factory" /\ (Unconfirmed \/ pc = "exit")) => NoProviderCall

\* C16 as claimed: before the confirmation the delete-only flow has issued no
\* key call and the factory flow no provider call; the delete-only flow goes
\* on only if the answer is 'yes' in any case of letters, the factory flow
\* only if the answer is 'y'; after another answer the run has ended, with
\* no key deleted.
C16_OriginalStep ==
    /\ (pc = "rm_check" /\ pc' # "exit") => Lower(typed) = Str(<<"y", "e", "s">>)
    /\ (pc = "fa_confirm" /\ pc' # "exit") => typed = Str(<<"y">>)

C16_Original == [](C16_State) /\ [][C16_OriginalStep]_vars

\* C16 amended: as claimed, but the factory flow too compares the lowered
\* answer: it goes on if and only if the answer is 'y' or 'Y', as the
\* delete-only flow goes on if and only if the answer is 'yes' in any case
\* of letters.
C16_Step ==
    /\ pc = "rm_check" => (pc' # "exit" <=> Lower(typed) = Str(<<"y", "e", "s">>))
    /\ pc = "fa_confirm" => (pc' # "exit" <=> Lower(typed) = Str(<<"y">>))

C16_ConfirmationFirst == [](C16_State) /\ [][C16_Step]_vars

C16_Witness ==
    /\ flow = "remove" /\ pc = "exit" /\ exit_status = 0
    /\ Len(target) >= 2
    /\ NoKeyCall

\* address e has a short name, the part before its first '@', that begins
\* with the characters of p
ShortNameBegins(e, p) ==
    \E n \in 1..Len(e) :
        /\ e[n] = Ord("@")
        /\ \A m \in 1..(n - 1) : e[m] # Ord("@")
        /\ Len(p) < n
        /\ \A k \in 1..Len(p) : e[k] = p[k]

\* t holds exactly the addresses of the listing whose short name begins
\* with p, once each and in the order of the listing
ExactlyThePrefixed(t, listing, p) ==
    /\ \A k \in 1..Len(t) : t[k] \in Range(listing) /\ ShortNameBegins(t[k], p)
    /\ \A e \in Range(listing) : ShortNameBegins(e, p) => e \in Range(t)
    /\ NoDuplicates(t)
    /\ \A a, b \in 1..Len(t) :
          a < b => \E m, n \in 1..Len(listing) :
                      m < n /\ listing[m] = t[a] /\ listing[n] = t[b]

\* the addresses of the accounts the discovery step has returned
Discovered(t) ==
    IF flow = "make" THEN [k \in 1..Len(t) |-> t[k].email] ELSE t

\* C17: a discovery step whose listing succeeds returns exactly the accounts
\* of the directory whose short name begins with the prefix, once each and
\* in listing order; the characters of the prefix stand for themselves.
C17_State ==
    (\/ flow = "make" /\ pc = "mk_pass" /\ pass_no = 1 /\ i = 0
     \/ flow = "remove" /\ pc \in {"rm_confirm", "rm_check"})
        => ExactlyThePrefixed(Discovered(target), directory, prefix)

C17_Step ==
    (pc \in {"mk_list", "rm_find"} /\ ~denied /\ faults' = faults) =>
        /\ ExactlyThePrefixed(Discovered(target'), directory, prefix)
        /\ flow = "make" =>
              \A k \in 1..Len(target') :
                  target'[k].email = target'[k].name \o Str(<<"@">>) \o ProjectId

C17_PrefixFilter == [](C17_State) /\ [][C17_Step]_vars

C17_Witness ==
    /\ flow = "remove" /\ pc = "rm_confirm"
    /\ prefix = SaPrefix
    /\ Len(target) = MaxRemove /\ Len(directory) = MaxRemove + 2
    /\ target[1] = directory[2]

\* the keys the provider has created for an account in this run
CreatedInRun(e) ==
    IF flow = "make"
    THEN Cardinality(UserKeysOf(e)) - Cardinality(HeldBefore(e))
    ELSE Cardinality(UserKeysOf(e))

\* C18 as claimed: in a key creation loop, and after it, the provider has
\* created at most one key for each target account in the run.
C18_Claim ==
    (KeyCreationLoop \/ (flow \in {"make", "factory"} /\ pc = "done")) =>
        \A e \in TargetAddresses : CreatedInRun(e) <= 1

\* C19: when a list-and-delete call has returned success the account holds
\* none of the user-managed keys it held when the call started; the keys a
\* call still has to delete are user-managed keys that the account held at
\* the start and still holds (none was deleted in an earlier attempt), and
\* a step of a call removes only such a key: the provider-managed key stays.
C19_State ==
    /\ (pc = "rm_ret" /\ ret >= 0) => held \cap keys[queue[i + 1]] = {}
    /\ (pc = "fa_ret" /\ ret) => held \cap keys[queue[i + 1]] = {}
    /\ pc \in {"rm_delete", "fa_delete"} =>
          \A k \in (key_pos + 1)..Len(key_names) :
              /\ key_names[k] \in keys[queue[i + 1]]
              /\ key_names[k] \in held
              /\ key_names[k][1] = "USER_MANAGED"
    /\ (InCall /\ queue[i + 1] \in Range(directory))
          => SystemKey(0) \in keys[queue[i + 1]]

C19_Step ==
    InCall =>
        \A e \in DOMAIN keys :
            /\ keys[e] \ keys'[e] \subseteq
                  (IF e = queue[i + 1] /\ pc \in {"rm_delete", "fa_delete"}
                   THEN {key_names[key_pos + 1]} ELSE {})
            /\ keys'[e] \subseteq keys[e]

C19_OnlyListedKeys == [](C19_State) /\ [][C19_Step]_vars

C19_Witness ==
    /\ pc = "rm_ret" /\ ret >= 0 /\ attempt >= 1
    /\ Cardinality(held) = 2 /\ calls.delete = 3
    /\ UserKeysOf(queue[i + 1]) = {}

RECURSIVE SumOver(_, _)
SumOver(f, set) ==
    IF set = {} THEN 0
    ELSE LET x == CHOOSE x \in set : TRUE
         IN  f[x] + SumOver(f, set \ {x})

\* the keys of the target accounts that delete-key calls have removed in a
\* delete-only run: nothing else removes a key of an account that is still
\* in the directory, and nothing creates one
DeletedAtProvider ==
    LET accounts == TargetAddresses \cap Range(directory)
    IN  SumOver([e \in accounts |-> Cardinality(HeldBefore(e) \ keys[e])], accounts)

\* C20 as claimed: at the end of a delete-only run the reported total is the
\* number of delete-key calls that succeeded at the provider.
C20_Claim ==
    (flow = "remove" /\ pc = "done") => total_keys_deleted = DeletedAtProvider


\* the delete-only run has passed the confirmation
RmConfirmed ==
    /\ flow = "remove"
    /\ \/ pc \in {"rm_loop", "rm_list", "rm_delete", "rm_ret", "done"}
       \/ pc = "exit" /\ calls # NoCalls

\* the confirmed delete-only run has ended
RmEnded == RmConfirmed /\ pc \in {"done", "exit"}

\* the accounts whose call of list-and-delete has returned, in call order
RmProcessed == [k \in 1..Len(results) |-> results[k].item]

\* C21: after the confirmation a delete-only run calls list-and-delete once
\* for each discovered account, in discovery order; the failure of one
\* account does not stop the processing of the following ones, so that a run
\* that has ended has processed every discovered account; and no account
\* gets more than 3 list-keys calls.
C21_Claim ==
    RmConfirmed =>
        /\ calls.list <= RETRIES
        /\ Len(results) <= Len(target)
        /\ RmProcessed = SubSeq(target, 1, Len(results))
        /\ RmEnded => RmProcessed = target

====
